---- MODULE Spec2Model ----
(***************************************************************************)
(* A model of fast-paillier's src/utils.rs: membership and sampling in     *)
(* Z*_n, the sieve-accelerated safe-prime generator, and the two           *)
(* FactorizedExp implementations (NaiveExp, CrtExp).                       *)
(*                                                                         *)
(* The arbitrary-precision engine (rug / GMP) is modelled by what its      *)
(* operations compute: `%` truncates towards zero and panics on a zero     *)
(* divisor, `modulo` is the Euclidean remainder, `pow_mod` yields the      *)
(* canonical residue in [0, m), `invert` yields None without an inverse.   *)
(***************************************************************************)
EXTENDS Integers, Sequences, FiniteSets

VARIABLES
    e, p, q,      \* the arguments handed to FactorizedExp::build
    x,            \* the argument handed to FactorizedExp::exp
    naive,        \* Option<NaiveExp> returned by NaiveExp::build
    crt,          \* Option<CrtExp> returned by CrtExp::build
    nres,         \* result of NaiveExp::exp on the current x
    cres,         \* result of CrtExp::exp on the current x
    powExps,      \* every exponent handed to pow_mod so far
    gen,          \* one run of sieve_generate_safe_primes
    ref,          \* a second run of it, fed the same random draws
    smp           \* one run of sample_in_mult_group

vars == <<e, p, q, x, naive, crt, nres, cres, powExps, gen, ref, smp>>

(***************************************************************************)
(* Bounds of the model.                                                    *)
(***************************************************************************)
MaxE == 7         \* exponents are drawn from -1 .. MaxE
MaxPQ == 13       \* factors are drawn from -1 .. MaxPQ
MaxNegX == 3      \* bases are drawn from -MaxNegX .. MaxX
MaxX == 37
MaxBits == 7      \* requested widths are drawn from 2 .. MaxBits
TableLen == 4     \* length of the modelled small-prime table
MaxExtra == 2     \* sieve amounts are drawn from 0 .. TableLen + MaxExtra
MaxN == 15        \* sampling moduli are drawn from 1 .. MaxN

(***************************************************************************)
(* The numeric engine.                                                     *)
(***************************************************************************)
Abs(a) == IF a < 0 THEN -a ELSE a

\* Integer % Integer of rug: the remainder has the sign of the dividend.
TruncRem(a, b) == IF a >= 0 THEN a % b ELSE -((-a) % b)

\* Integer::modulo of rug: the Euclidean remainder, never negative.
EuclidMod(a, b) == a % Abs(b)

RECURSIVE GcdNat(_, _)
GcdNat(a, b) == IF b = 0 THEN a ELSE GcdNat(b, a % b)

\* Integer::gcd_ref: the greatest common divisor, never negative.
Gcd(a, b) == GcdNat(Abs(a), Abs(b))

\* Integer::invert_ref(a, m) is Some exactly when an inverse exists.
HasInverse(a, m) == \E b \in 0..(m - 1) : (a * b) % m = 1 % m

Inverse(a, m) == CHOOSE b \in 0..(m - 1) : (a * b) % m = 1 % m

\* Binary exponentiation, the residue reduced to [0, m) at every step.
RECURSIVE PowModNat(_, _, _)
PowModNat(b, k, m) ==
    IF k = 0 THEN 1 % m
    ELSE LET h == PowModNat(b, k \div 2, m)
             sq == (h * h) % m
         IN  IF k % 2 = 1 THEN (sq * (b % m)) % m ELSE sq

\* Integer::pow_mod: Err only for a negative exponent without an inverse.
PowMod(b, k, m) ==
    IF k >= 0 THEN [ok |-> TRUE, v |-> PowModNat(b, k, m)]
    ELSE IF HasInverse(b % m, m)
         THEN [ok |-> TRUE, v |-> PowModNat(Inverse(b % m, m), -k, m)]
         ELSE [ok |-> FALSE, v |-> 0]

(***************************************************************************)
(* FactorizedExp: NaiveExp and CrtExp.                                     *)
(***************************************************************************)
Unbuilt == [tag |-> "Unbuilt"]
None == [tag |-> "None"]
Panic == [tag |-> "Panic"]
NoRes == [tag |-> "NoRes"]
Val(v) == [tag |-> "Val", v |-> v]

NaiveBuild_NoSignCheck(ee, pa, qa) ==
    IF pa <= 0 \/ qa <= 0 THEN None
    ELSE [tag |-> "Some", e |-> ee, nn |-> (pa * qa) * (pa * qa)]

NaiveBuild(ee, pa, qa) ==
    IF ee < 0 \/ pa <= 0 \/ qa <= 0 THEN None
    ELSE [tag |-> "Some", e |-> ee, nn |-> (pa * qa) * (pa * qa)]

NaiveExp(ctx, xa) ==
    LET r == PowMod(xa, ctx.e, ctx.nn)
    IN  IF r.ok THEN Val(r.v) ELSE Panic

\* The arithmetic of CrtExp::build after its argument check.  `e % 0`
\* panics in the engine, and happens before the inverse is looked for.
CrtPrecompute(ee, pa, qa) ==
    LET pp == pa * pa
        qq == qa * qa
    IN  IF pp - pa = 0 \/ qq - qa = 0 THEN Panic
        ELSE IF ~HasInverse(pp, qq) THEN None
        ELSE [tag |-> "Some",
              pp |-> pp,
              qq |-> qq,
              e_mod_phi_pp |-> TruncRem(ee, pp - pa),
              e_mod_phi_qq |-> TruncRem(ee, qq - qa),
              beta |-> Inverse(pp, qq)]

CrtBuild_NonNegFactors(ee, pa, qa) ==
    IF ee < 0 \/ pa < 0 \/ qa < 0 THEN None
    ELSE CrtPrecompute(ee, pa, qa)

CrtBuild(ee, pa, qa) ==
    IF ee < 0 \/ pa <= 0 \/ qa <= 0 THEN None
    ELSE CrtPrecompute(ee, pa, qa)

CrtExp_NoBeta(ctx, xa) ==
    LET s1 == TruncRem(xa, ctx.pp)
        s2 == TruncRem(xa, ctx.qq)
        r1 == PowMod(s1, ctx.e_mod_phi_pp, ctx.pp)
        r2 == PowMod(s2, ctx.e_mod_phi_qq, ctx.qq)
    IN  IF ~r1.ok \/ ~r2.ok THEN Panic
        ELSE Val(EuclidMod(r2.v - r1.v, ctx.qq) * ctx.pp + r1.v)

CrtExp(ctx, xa) ==
    LET s1 == TruncRem(xa, ctx.pp)
        s2 == TruncRem(xa, ctx.qq)
        r1 == PowMod(s1, ctx.e_mod_phi_pp, ctx.pp)
        r2 == PowMod(s2, ctx.e_mod_phi_qq, ctx.qq)
    IN  IF ~r1.ok \/ ~r2.ok THEN Panic
        ELSE Val(EuclidMod((r2.v - r1.v) * ctx.beta, ctx.qq) * ctx.pp + r1.v)

(***************************************************************************)
(* Group utilities.                                                        *)
(***************************************************************************)
InMultGroupAbs_AnyGcd(xa, na) == Gcd(xa, na) >= 1

InMultGroupAbs(xa, na) == Gcd(xa, na) = 1

InMultGroup(xa, na) == xa >= 0 /\ InMultGroupAbs(xa, na)

\* One pass of the loop of sample_in_mult_group: the draw, then the test.
SampleDrawStep(s, r) == [s EXCEPT !.x = r, !.pc = "check"]

SampleCheckStep(s) ==
    IF InMultGroup(s.x, s.n) THEN [s EXCEPT !.pc = "done"]
    ELSE [s EXCEPT !.pc = "draw"]

(***************************************************************************)
(* The safe-prime generator.                                               *)
(***************************************************************************)
\* Integer::is_probably_prime(25) answers Yes or Probably.  At the widths
\* of this model the engine decides primality exactly.
IsProbablyPrime(na) == na > 1 /\ \A d \in 2..(na - 1) : na % d # 0

\* The built-in table small_primes::SMALL_PRIMES: the first TableLen odd
\* primes, in increasing order.
RECURSIVE PrimesFrom(_, _)
PrimesFrom(k, c) ==
    IF k = 0 THEN <<>>
    ELSE IF IsProbablyPrime(c) THEN <<c>> \o PrimesFrom(k - 1, c + 2)
    ELSE PrimesFrom(k, c + 2)

SMALL_PRIMES == PrimesFrom(TableLen, 3)

\* The sieve size generate_safe_prime passes on.
SieveAmount == 135

Min(a, b) == IF a <= b THEN a ELSE b

Clamp_None(amount) == amount

\* amount.min(SMALL_PRIMES.len())
Clamp(amount) == Min(amount, Len(SMALL_PRIMES))

SetBit(v, k) == IF (v \div (2 ^ k)) % 2 = 1 THEN v ELSE v + 2 ^ k

Candidate_NoSetBit(bits, r) == IF r % 2 = 1 THEN r ELSE r + 1

\* The candidate built from the bits - 1 random bits r: bit bits - 2 set,
\* then bit 0 set.
Candidate(bits, r) ==
    LET y == SetBit(r, bits - 2)
    IN  IF y % 2 = 1 THEN y ELSE y + 1

\* Entry of sieve_generate_safe_primes: the sieve amount is clamped.
EnterStep(g) == [g EXCEPT !.eff = Clamp(g.amount), !.pc = "draw"]

\* Top of 'trial: a fresh candidate, and the sieve starts at the first prime.
DrawStep(g, r) ==
    [g EXCEPT !.raw = r, !.x = Candidate(g.bits, r), !.idx = 1, !.pc = "sieve"]

\* One iteration of the sieve loop over SMALL_PRIMES[0..amount]; taking the
\* slice panics when amount exceeds the table.
SieveStep(g) ==
    IF g.eff > Len(SMALL_PRIMES) THEN [g EXCEPT !.pc = "panic"]
    ELSE IF g.idx > g.eff THEN [g EXCEPT !.pc = "testq"]
    ELSE IF g.x % SMALL_PRIMES[g.idx] = (SMALL_PRIMES[g.idx] - 1) \div 2
         THEN [g EXCEPT !.pc = "draw"]
         ELSE [g EXCEPT !.idx = g.idx + 1]

TestQStep(g) ==
    IF IsProbablyPrime(g.x) THEN [g EXCEPT !.x = 2 * g.x + 1, !.pc = "testp"]
    ELSE [g EXCEPT !.pc = "draw"]

TestPStep_NoTest(g) == [g EXCEPT !.ret = g.x, !.pc = "done"]

TestPStep(g) ==
    IF IsProbablyPrime(g.x) THEN [g EXCEPT !.ret = g.x, !.pc = "done"]
    ELSE [g EXCEPT !.pc = "draw"]

\* The values random_bits(bits - 1) can yield.
Draws(bits) == 0..(2 ^ (bits - 1) - 1)

\* The step a run takes from its position, r being the next random draw.
Step(g, r) ==
    CASE g.pc = "entry" -> EnterStep(g)
      [] g.pc = "draw" -> DrawStep(g, r)
      [] g.pc = "sieve" -> SieveStep(g)
      [] g.pc = "testq" -> TestQStep(g)
      [] g.pc = "testp" -> TestPStep(g)
      [] OTHER -> g

(***************************************************************************)
(* Specification SpecExp: a caller builds both contexts from one (e, p, q) *)
(* and applies both to the same x, any number of times.                    *)
(***************************************************************************)
GenIdle == [pc |-> "idle", bits |-> 0, amount |-> 0, eff |-> 0,
            raw |-> 0, x |-> 0, idx |-> 0, ret |-> 0]
SmpIdle == [pc |-> "idle", n |-> 0, x |-> 0]

ERange == (-1)..MaxE
PQRange == (-1)..MaxPQ
XRange == (-MaxNegX)..MaxX

InitExp ==
    /\ e \in ERange
    /\ p \in PQRange
    /\ q \in PQRange
    /\ x \in XRange
    /\ naive = Unbuilt
    /\ crt = Unbuilt
    /\ nres = NoRes
    /\ cres = NoRes
    /\ powExps = {}
    /\ gen = GenIdle
    /\ ref = GenIdle
    /\ smp = SmpIdle

NaiveBuildAct ==
    /\ naive = Unbuilt
    /\ naive' = NaiveBuild(e, p, q)
    /\ UNCHANGED <<e, p, q, x, crt, nres, cres, powExps, gen, ref, smp>>

CrtBuildAct ==
    /\ crt = Unbuilt
    /\ crt' = CrtBuild(e, p, q)
    /\ UNCHANGED <<e, p, q, x, naive, nres, cres, powExps, gen, ref, smp>>

NaiveExpAct ==
    /\ naive.tag = "Some"
    /\ nres = NoRes
    /\ nres' = NaiveExp(naive, x)
    /\ powExps' = powExps \cup {naive.e}
    /\ UNCHANGED <<e, p, q, x, naive, crt, cres, gen, ref, smp>>

CrtExpAct ==
    /\ crt.tag = "Some"
    /\ cres = NoRes
    /\ cres' = CrtExp(crt, x)
    /\ powExps' = powExps \cup {crt.e_mod_phi_pp, crt.e_mod_phi_qq}
    /\ UNCHANGED <<e, p, q, x, naive, crt, nres, gen, ref, smp>>

\* The caller moves on to another x once it holds a result for this one.
NewInput ==
    /\ nres # NoRes \/ cres # NoRes
    /\ \E v \in XRange \ {x} : x' = v
    /\ nres' = NoRes
    /\ cres' = NoRes
    /\ UNCHANGED <<e, p, q, naive, crt, powExps, gen, ref, smp>>

NextExp ==
    \/ NaiveBuildAct
    \/ CrtBuildAct
    \/ NaiveExpAct
    \/ CrtExpAct
    \/ NewInput

SpecExp == InitExp /\ [][NextExp]_vars

(***************************************************************************)
(* Claims about FactorizedExp, checked under SpecExp.                      *)
(***************************************************************************)
\* x^k by repeated multiplication, unreduced.
RECURSIVE Pow(_, _)
Pow(b, k) == IF k = 0 THEN 1 ELSE b * Pow(b, k - 1)

\* x^k mod m by the definition: k multiplications by x, each reduced mod m.
RECURSIVE DirectPowMod(_, _, _)
DirectPowMod(b, k, m) ==
    IF k = 0 THEN 1 % m ELSE ((b % m) * DirectPowMod(b, k - 1, m)) % m

InvalidArgs == e < 0 \/ p <= 0 \/ q <= 0

\* C1: for e >= 0, p > 0, q > 0, p # q and gcd(p^2, q^2) = 1, and every x,
\* NaiveExp's and CrtExp's exp(x) agree and both equal x^e mod (p*q)^2.
ClaimC1 ==
    (/\ ~InvalidArgs
     /\ p # q
     /\ Gcd(p * p, q * q) = 1
     /\ nres # NoRes
     /\ cres # NoRes)
    => /\ nres = cres
       /\ nres = Val(DirectPowMod(x, e, (p * q) * (p * q)))

\* C2: with e < 0 or p <= 0 or q <= 0, both builds return None, and neither
\* aborts on the way.
InvC2 ==
    InvalidArgs => /\ naive \in {Unbuilt, None}
                   /\ crt \in {Unbuilt, None}

\* Both builds have returned None for p = 0, where e % (p^2 - p) would abort.
WitC2 == e >= 0 /\ p = 0 /\ q > 0 /\ naive = None /\ crt = None

\* C3: for e >= 0, p > 0, q > 0, CrtExp::build never panics, and returns
\* None exactly when gcd(p^2, q^2) # 1.
ClaimC3 ==
    (~InvalidArgs /\ crt # Unbuilt)
    => /\ crt # Panic
       /\ (crt = None) <=> (Gcd(p * p, q * q) # 1)

Scenario == e = 7 /\ p = 11 /\ q = 13 /\ x = 5

\* C7 as stated: in the scenario p = 11, q = 13, e = 7, x = 5 both exp
\* results are 17650.
ClaimC7_Original ==
    (Scenario /\ nres # NoRes /\ cres # NoRes)
    => nres = Val(17650) /\ cres = Val(17650)

\* C7 as amended: in the scenario p = 11, q = 13, e = 7, x = 5 both builds
\* succeed and both exp results are 5^7 mod 20449, which is 16778.
InvC7 ==
    Scenario
    => /\ naive.tag \in {"Unbuilt", "Some"}
       /\ crt.tag \in {"Unbuilt", "Some"}
       /\ Pow(5, 7) % 20449 = 16778
       /\ nres # NoRes => nres = Val(16778)
       /\ cres # NoRes => cres = Val(16778)

\* Both implementations have answered in the scenario.
WitC7 == Scenario /\ nres.tag = "Val" /\ cres.tag = "Val"

\* C10: every exponent stored in a built context is non-negative, exp leaves
\* the context as it is, pow_mod is never handed a negative exponent and the
\* `expect` of exp never fires.
InvC10 ==
    /\ [](/\ naive.tag = "Some" => naive.e >= 0
          /\ crt.tag = "Some" => crt.e_mod_phi_pp >= 0 /\ crt.e_mod_phi_qq >= 0
          /\ \A k \in powExps : k >= 0
          /\ nres # Panic
          /\ cres # Panic)
    /\ [][/\ naive.tag = "Some" => naive' = naive
          /\ crt.tag = "Some" => crt' = crt]_vars

\* Both exp have run on a negative x, with an exponent that CrtExp::build
\* reduced.
WitC10 ==
    /\ x < 0
    /\ nres.tag = "Val"
    /\ cres.tag = "Val"
    /\ crt.e_mod_phi_pp < e
    /\ {naive.e, crt.e_mod_phi_pp, crt.e_mod_phi_qq} \subseteq powExps

(***************************************************************************)
(* Specification SpecPrime: one call of sieve_generate_safe_primes, a step *)
(* at a time.  FairSpecPrime adds that the loop keeps running and that     *)
(* every value of the random source keeps being drawn.                     *)
(***************************************************************************)
ExpIdle ==
    /\ e = 0 /\ p = 0 /\ q = 0 /\ x = 0
    /\ naive = Unbuilt /\ crt = Unbuilt
    /\ nres = NoRes /\ cres = NoRes
    /\ powExps = {}

expVars == <<e, p, q, x, naive, crt, nres, cres, powExps>>

BitsRange == 2..MaxBits
Amounts == (0..(TableLen + MaxExtra)) \cup {SieveAmount}

GenStart(bits, amount) ==
    [pc |-> "entry", bits |-> bits, amount |-> amount, eff |-> 0,
     raw |-> 0, x |-> 0, idx |-> 0, ret |-> 0]

InitPrime ==
    /\ ExpIdle
    /\ \E b \in BitsRange, a \in Amounts : gen = GenStart(b, a)
    /\ ref = GenIdle
    /\ smp = SmpIdle

Enter ==
    /\ gen.pc = "entry"
    /\ gen' = EnterStep(gen)
    /\ UNCHANGED <<expVars, ref, smp>>

Draw(r) ==
    /\ gen.pc = "draw"
    /\ r \in Draws(gen.bits)
    /\ gen' = DrawStep(gen, r)
    /\ UNCHANGED <<expVars, ref, smp>>

Sieve ==
    /\ gen.pc = "sieve"
    /\ gen' = SieveStep(gen)
    /\ UNCHANGED <<expVars, ref, smp>>

TestQ ==
    /\ gen.pc = "testq"
    /\ gen' = TestQStep(gen)
    /\ UNCHANGED <<expVars, ref, smp>>

TestP ==
    /\ gen.pc = "testp"
    /\ gen' = TestPStep(gen)
    /\ UNCHANGED <<expVars, ref, smp>>

NextPrime ==
    \/ Enter
    \/ \E r \in Draws(MaxBits) : Draw(r)
    \/ Sieve
    \/ TestQ
    \/ TestP

SpecPrime == InitPrime /\ [][NextPrime]_vars

\* The state right after Draw(r): the sieve has not looked at the candidate.
JustDrew(r) == gen.pc = "sieve" /\ gen.idx = 1 /\ gen.raw = r

\* The loop never stops by itself, and as long as it runs every value of the
\* random source is drawn again and again.
FairSpecPrime ==
    /\ InitPrime
    /\ [][NextPrime]_vars
    /\ WF_vars(NextPrime)
    /\ \A r \in Draws(MaxBits) :
          []<>(gen.pc = "done" \/ r \notin Draws(gen.bits) \/ JustDrew(r))

(***************************************************************************)
(* Specification SpecClamp: two calls with the same width, `gen` with the  *)
(* caller's amount and `ref` with the table's length, fed the same draws.  *)
(***************************************************************************)
InitClamp ==
    /\ ExpIdle
    /\ \E b \in BitsRange, a \in Amounts \ (0..(TableLen - 1)) :
          /\ gen = GenStart(b, a)
          /\ ref = GenStart(b, Len(SMALL_PRIMES))
    /\ smp = SmpIdle

Halted(g) == g.pc \in {"done", "panic"}

PairDraw ==
    /\ "draw" \in {gen.pc, ref.pc}
    /\ \E r \in Draws(gen.bits) :
          /\ gen' = Step(gen, r)
          /\ ref' = Step(ref, r)
    /\ UNCHANGED <<expVars, smp>>

PairAdvance ==
    /\ "draw" \notin {gen.pc, ref.pc}
    /\ ~(Halted(gen) /\ Halted(ref))
    /\ gen' = Step(gen, 0)
    /\ ref' = Step(ref, 0)
    /\ UNCHANGED <<expVars, smp>>

NextClamp ==
    \/ PairDraw
    \/ PairAdvance

SpecClamp == InitClamp /\ [][NextClamp]_vars

(***************************************************************************)
(* Specification SpecSample: one call of sample_in_mult_group.             *)
(***************************************************************************)
NRange == 1..MaxN

InitSample ==
    /\ ExpIdle
    /\ gen = GenIdle
    /\ ref = GenIdle
    /\ \E na \in NRange : smp = [pc |-> "draw", n |-> na, x |-> 0]

SampleDraw ==
    /\ smp.pc = "draw"
    /\ \E r \in 0..(smp.n - 1) : smp' = SampleDrawStep(smp, r)
    /\ UNCHANGED <<expVars, gen, ref>>

SampleCheck ==
    /\ smp.pc = "check"
    /\ smp' = SampleCheckStep(smp)
    /\ UNCHANGED <<expVars, gen, ref>>

NextSample ==
    \/ SampleDraw
    \/ SampleCheck

SpecSample == InitSample /\ [][NextSample]_vars

(***************************************************************************)
(* Claims about the safe-prime generator and the sampler.                  *)
(***************************************************************************)
\* Primality by counting divisors, independent of the generator's own test.
PrimeByDivisors(na) == na > 1 /\ Cardinality({d \in 1..na : na % d = 0}) = 2

\* C4: a returned value has exactly `bits` bits: 2^(bits-1) <= p < 2^bits.
InvC4 ==
    gen.pc = "done"
    => 2 ^ (gen.bits - 1) <= gen.ret /\ gen.ret < 2 ^ gen.bits

\* A value was returned from a draw whose bit bits - 2 was not set.
WitC4 == gen.pc = "done" /\ gen.raw < 2 ^ (gen.bits - 2) /\ gen.bits >= 5

\* C5: a returned p is prime and (p - 1) / 2 is prime.
InvC5 ==
    gen.pc = "done"
    => /\ PrimeByDivisors(gen.ret)
       /\ PrimeByDivisors((gen.ret - 1) \div 2)
       /\ gen.ret = gen.x

\* A value was returned after the whole table was sieved with.
WitC5 == gen.pc = "done" /\ gen.eff = TableLen /\ gen.ret > 2 ^ 4

\* C6: for n > 1 the sampler's result x has 0 <= x < n and shares no
\* divisor above 1 with n.
InvC6 ==
    (smp.pc = "done" /\ smp.n > 1)
    => /\ 0 <= smp.x
       /\ smp.x < smp.n
       /\ \A d \in 2..smp.n : ~(smp.x % d = 0 /\ smp.n % d = 0)

\* A sample was returned for a composite n.
WitC6 ==
    /\ smp.pc = "done"
    /\ smp.x > 1
    /\ \E d \in 2..(smp.n - 1) : smp.n % d = 0

\* C8: with an amount above the table's length the call does not fail, and
\* on the same draws it goes through the same states, sieve primes and
\* rejections included, as the call with the table's length, and returns
\* the same value.
InvC8 ==
    gen.amount > Len(SMALL_PRIMES)
    => /\ gen.pc # "panic"
       /\ gen = [ref EXCEPT !.amount = gen.amount]

\* Both calls have returned, the first one asked for more than the table.
WitC8 ==
    /\ gen.amount > Len(SMALL_PRIMES)
    /\ gen.pc = "done"
    /\ ref.pc = "done"

SafePrimeOfWidth(bits) ==
    \E v \in (2 ^ (bits - 1))..(2 ^ bits - 1) :
        PrimeByDivisors(v) /\ PrimeByDivisors((v - 1) \div 2)

\* C9: whenever a safe prime of the requested width exists, the call
\* returns, whatever the sieve amount.
ClaimC9 == SafePrimeOfWidth(gen.bits) => <>(gen.pc = "done")

====
